---- MODULE Spec2Model ----
(***************************************************************************)
(* Model of migrate_themes.py: the batch migration of TypeScript theme     *)
(* files (docs/themes/*.ts) to Markdown theme files (themes/<id>.md).      *)
(*                                                                         *)
(* File contents, file names, output files and log lines are strings, and  *)
(* the regular expressions of parse_ts_theme are evaluated character by    *)
(* character.  A Python dict is a sequence of <<key, value>> pairs in      *)
(* insertion order.  File reads and writes are taken to succeed (the       *)
(* source directory exists, every entry is a readable file, every theme id *)
(* is a usable file name).                                                 *)
(***************************************************************************)
EXTENDS Integers, Sequences, FiniteSets, TLC

(***************************************************************************)
(* Bounds of the explored inputs.                                          *)
(***************************************************************************)
\* largest number of entries in the source directory
MaxFiles == 3
\* largest number of lines in the body of a colors / editor block
MaxLines == 2
\* number of times the script is run over the same source directory
MaxRuns == 2

(***************************************************************************)
(* Evaluation.  Python evaluates an expression once and binds the value to *)
(* a local name; With does the same for the definitions below.             *)
(***************************************************************************)
\* F applied to the value of v
With(v, F(_)) == CHOOSE r \in {F(x) : x \in {v}} : TRUE

\* the least and the greatest element of a non-empty set of integers
Min(S) == CHOOSE i \in S : \A j \in S : i <= j
Max(S) == CHOOSE i \in S : \A j \in S : i >= j

(***************************************************************************)
(* Strings.                                                                *)
(***************************************************************************)
\* s[i] of Python, 1-based; "" outside the string
Ch(s, i) == IF i >= 1 /\ i <= Len(s) THEN SubSeq(s, i, i) ELSE ""

\* str.startswith at an offset: s[i-1:].startswith(p)
StartsWithAt(s, i, p) == i + Len(p) - 1 <= Len(s) /\ SubSeq(s, i, i + Len(p) - 1) = p

\* str.endswith
EndsWith(s, p) == Len(s) >= Len(p) /\ SubSeq(s, Len(s) - Len(p) + 1, Len(s)) = p

\* the Python operator `p in s` on strings
Contains(s, p) == \E i \in 1..(Len(s) - Len(p) + 1) : SubSeq(s, i, i + Len(p) - 1) = p

\* the class \s of the re module (and the characters str.strip removes)
Whitespace == {" ", "\t", "\n", "\r"}

\* the class \w of the re module, restricted to the characters the inputs use
WordChars ==
  {"a", "b", "c", "d", "e", "f", "g", "h", "i", "j", "k", "l", "m", "n", "o", "p", "q",
   "r", "s", "t", "u", "v", "w", "x", "y", "z", "A", "B", "C", "D", "E", "F", "G", "H",
   "I", "J", "K", "L", "M", "N", "O", "P", "Q", "R", "S", "T", "U", "V", "W", "X", "Y",
   "Z", "0", "1", "2", "3", "4", "5", "6", "7", "8", "9", "_"}

\* the first index >= i whose character is not in the class, Len(s) + 1 when
\* there is none: the end of a greedy class* that starts at i
SkipClass(s, i, class) ==
  With({j \in i..Len(s) : Ch(s, j) \notin class},
       LAMBDA stops : IF stops = {} THEN Len(s) + 1 ELSE Min(stops))

\* end of a greedy \s* starting at i
SkipWs(s, i) == SkipClass(s, i, Whitespace)

\* end of a greedy \w* starting at i
SkipWord(s, i) == SkipClass(s, i, WordChars)

\* the first index >= i holding the character c, 0 when there is none
FindChar(s, i, c) ==
  With({j \in i..Len(s) : Ch(s, j) = c},
       LAMBDA hits : IF hits = {} THEN 0 ELSE Min(hits))

\* str.split(sep) for a one-character separator: the pieces between
\* consecutive separators, the start and the end of the string
Split(s, sep) ==
  With({0} \cup {j \in 1..Len(s) : Ch(s, j) = sep} \cup {Len(s) + 1},
       LAMBDA cuts :
         [k \in 1..(Cardinality(cuts) - 1) |->
            With(CHOOSE c \in cuts : Cardinality({d \in cuts : d <= c}) = k,
                 LAMBDA c : SubSeq(s, c + 1, Min({d \in cuts : d > c}) - 1))])

\* str.strip(): leading and trailing whitespace removed
Strip(s) ==
  With({j \in 1..Len(s) : Ch(s, j) \notin Whitespace},
       LAMBDA kept : IF kept = {} THEN "" ELSE SubSeq(s, Min(kept), Max(kept)))

(***************************************************************************)
(* Python values.                                                          *)
(***************************************************************************)
\* None, and a value wrapped so that it differs from None
None == <<>>
Some(v) == <<v>>

\* dict: `k in d`
DictHas(d, k) == \E i \in 1..Len(d) : d[i][1] = k

\* dict: d[k]
DictGet(d, k) == d[CHOOSE i \in 1..Len(d) : d[i][1] = k][2]

\* DictSet with a slip: an existing key is removed and stored again at the end
DictSet_reappend(d, k, v) == Append(SelectSeq(d, LAMBDA e : e[1] # k), <<k, v>>)

\* dict: d[k] = v; an existing key keeps its position, a new key goes last
DictSet(d, k, v) ==
  IF DictHas(d, k)
  THEN [i \in 1..Len(d) |-> IF d[i][1] = k THEN <<k, v>> ELSE d[i]]
  ELSE Append(d, <<k, v>>)

\* a dict display {k1: v1, k2: v2, ...}: the items are stored left to right
RECURSIVE DictOf(_)
DictOf(items) ==
  IF items = <<>> THEN <<>>
  ELSE DictSet(DictOf(SubSeq(items, 1, Len(items) - 1)), items[Len(items)][1], items[Len(items)][2])

(***************************************************************************)
(* Regular expressions of parse_ts_theme.                                  *)
(***************************************************************************)
\* \s*'([^']+)' matched at index i: Some(group 1) or None
QuotedAt(s, i) ==
  With(SkipWs(s, i),
       LAMBDA j : With(FindChar(s, j + 1, "'"),
                       LAMBDA k : IF Ch(s, j) = "'" /\ k > j + 1
                                  THEN Some(SubSeq(s, j + 1, k - 1))
                                  ELSE None))

\* \{([^}]+)\} matched at index i: Some(group 1) or None
BracedAt(s, i) ==
  With(FindChar(s, i + 1, "}"),
       LAMBDA k : IF Ch(s, i) = "{" /\ k > i + 1 THEN Some(SubSeq(s, i + 1, k - 1)) ELSE None)

\* re.search(label + r"\s*'([^']+)'", s): group 1 of the leftmost match, or None
LabelSearch(label, s) ==
  With({i \in 1..Len(s) : StartsWithAt(s, i, label) /\ QuotedAt(s, i + Len(label)) # None},
       LAMBDA hits : IF hits = {} THEN None ELSE QuotedAt(s, Min(hits) + Len(label)))

\* r"colors:\s*\{([^}]+)\}" matched at index i
ColorsBlockAt(s, i) ==
  IF StartsWithAt(s, i, "colors:")
  THEN With(SkipWs(s, i + 7), LAMBDA j : BracedAt(s, j))
  ELSE None

\* re.search(r"colors:\s*\{([^}]+)\}", s, re.DOTALL): group 1 of the leftmost match
ColorsBlock(s) ==
  With({i \in 1..Len(s) : ColorsBlockAt(s, i) # None},
       LAMBDA hits : IF hits = {} THEN None ELSE With(Min(hits), LAMBDA i : ColorsBlockAt(s, i)))

\* r"editor:\s*(?:createDefaultEditorTheme\(\s*)?\{([^}]+)\}" matched at index i:
\* the optional call is tried first, then the brace right after the label
EditorBlockAt(s, i) ==
  IF ~StartsWithAt(s, i, "editor:") THEN None
  ELSE With(SkipWs(s, i + 7),
            LAMBDA j :
              With(IF StartsWithAt(s, j, "createDefaultEditorTheme(")
                   THEN With(SkipWs(s, j + 25), LAMBDA b : BracedAt(s, b))
                   ELSE None,
                   LAMBDA withCall : IF withCall # None THEN withCall ELSE BracedAt(s, j)))

\* re.search of the editor pattern with re.DOTALL: group 1 of the leftmost match
EditorBlock(s) ==
  With({i \in 1..Len(s) : EditorBlockAt(s, i) # None},
       LAMBDA hits : IF hits = {} THEN None ELSE With(Min(hits), LAMBDA i : EditorBlockAt(s, i)))

\* re.match(r"(\w+):\s*'([^']+)'", line): Some(<<key, value>>) or None
KvMatch(line) ==
  With(SkipWord(line, 1),
       LAMBDA w : With(QuotedAt(line, w + 1),
                       LAMBDA q : IF w > 1 /\ Ch(line, w) = ":" /\ q # None
                                  THEN Some(<<SubSeq(line, 1, w - 1), q[1]>>)
                                  ELSE None))

\* the lines of a block that reach the key/value match: stripped, not empty, no comment
BlockLines(block) ==
  With(Split(block, "\n"),
       LAMBDA lines :
         SelectSeq([i \in 1..Len(lines) |-> With(lines[i], LAMBDA l : Strip(l))],
                   LAMBDA l : l # "" /\ ~StartsWithAt(l, 1, "//")))

(***************************************************************************)
(* The remapping tables.                                                   *)
(***************************************************************************)
\* the items of the COLOR_MAP display, in source order (the key "text" is written twice)
COLOR_MAP_ITEMS ==
  << <<"chromeBg", "--bg-app">>,
     <<"secondary", "--bg-panel">>,
     <<"surface", "--bg-panel">>,
     <<"surfaceHighlight", "--bg-header">>,
     <<"windowBg", "--bg-input">>,
     <<"text", "--text-main">>,
     <<"textMuted", "--text-muted">>,
     <<"primary", "--accent-primary">>,
     <<"success", "--accent-secondary">>,
     <<"border", "--border-light">>,
     <<"windowBorder", "--border-dark">>,
     <<"background", "--editor-bg">>,
     <<"text", "--editor-fg">>,
     <<"selection", "--editor-selection">>,
     <<"line", "--editor-line-number">>,
     <<"caret", "--editor-cursor">>,
     <<"gutter", "--editor-gutter">> >>

\* the dict the display evaluates to
COLOR_MAP == DictOf(COLOR_MAP_ITEMS)

\* the if/elif chain of the editor pass, as the table it encodes
EDITOR_MAP ==
  << <<"background", "--editor-bg">>,
     <<"text", "--editor-fg">>,
     <<"selection", "--editor-selection">>,
     <<"line", "--editor-line-number">>,
     <<"caret", "--editor-cursor">>,
     <<"gutter", "--editor-gutter">> >>

(***************************************************************************)
(* parse_ts_theme.                                                         *)
(***************************************************************************)
\* one line of a pass: a key/value line whose key is in the table stores its
\* value under the mapped token
ColorLine(colors, line, table) ==
  With(KvMatch(line),
       LAMBDA kv : IF kv # None /\ DictHas(table, kv[1][1])
                   THEN DictSet(colors, DictGet(table, kv[1][1]), kv[1][2])
                   ELSE colors)

\* one pass over the lines of a block, first line first
RECURSIVE ColorPass(_, _, _)
ColorPass(colors, lines, table) ==
  IF lines = <<>> THEN colors
  ELSE With(<<ColorLine(colors, Head(lines), table), Tail(lines)>>,
            LAMBDA st : ColorPass(st[1], st[2], table))

\* the primary pass: the colors block through COLOR_MAP
PrimaryPass(content) ==
  With(ColorsBlock(content),
       LAMBDA block : IF block # None
                      THEN With(BlockLines(block[1]), LAMBDA lines : ColorPass(<<>>, lines, COLOR_MAP))
                      ELSE <<>>)

\* the editor pass: the editor block through the editor keys, on top of the primary pass
EditorPass(colors, content) ==
  With(EditorBlock(content),
       LAMBDA block : IF block # None
                      THEN With(BlockLines(block[1]), LAMBDA lines : ColorPass(colors, lines, EDITOR_MAP))
                      ELSE colors)

\* Fallback with a slip: the test for a missing --list-hover is inverted
Fallback_inverted(colors) ==
  IF DictHas(colors, "--list-hover") /\ DictHas(colors, "--accent-primary")
  THEN DictSet(colors, "--list-hover", DictGet(colors, "--accent-primary"))
  ELSE colors

\* the UI fallback: --list-hover copies --accent-primary when it is missing
Fallback(colors) ==
  IF ~DictHas(colors, "--list-hover") /\ DictHas(colors, "--accent-primary")
  THEN DictSet(colors, "--list-hover", DictGet(colors, "--accent-primary"))
  ELSE colors

\* the colors of a file: the two passes in order, then the fallback
ThemeColors(content) ==
  With(PrimaryPass(content),
       LAMBDA primary : With(EditorPass(primary, content), LAMBDA both : Fallback(both)))

\* parse_ts_theme with a slip: a file without id gets the id of its name, or "untitled"
parse_ts_theme_anyid(content) ==
  With(<<LabelSearch("id:", content), LabelSearch("name:", content), LabelSearch("type:", content)>>,
       LAMBDA m :
         Some([id |-> IF m[1] # None THEN m[1][1] ELSE IF m[2] # None THEN m[2][1] ELSE "untitled",
               name |-> IF m[2] # None THEN m[2][1] ELSE "untitled",
               type |-> IF m[3] # None THEN m[3][1] ELSE "dark",
               colors |-> ThemeColors(content)]))

\* parse_ts_theme on the text of a file: Some(record) or None
parse_ts_theme(content) ==
  With(<<LabelSearch("id:", content), LabelSearch("name:", content), LabelSearch("type:", content)>>,
       LAMBDA m :
         IF m[1] = None THEN None
         ELSE Some([id |-> m[1][1],
                    name |-> IF m[2] # None THEN m[2][1] ELSE m[1][1],
                    type |-> IF m[3] # None THEN m[3][1] ELSE "dark",
                    colors |-> ThemeColors(content)]))

(***************************************************************************)
(* generate_md.                                                            *)
(***************************************************************************)
\* the lines of the colors block, in the iteration order of the dict
RECURSIVE ColorLines(_)
ColorLines(colors) ==
  IF colors = <<>> THEN ""
  ELSE "  " \o Head(colors)[1] \o ": \"" \o Head(colors)[2] \o "\"\n" \o ColorLines(Tail(colors))

\* the text generate_md writes for a record
generate_md(theme_data) ==
  "---\n"
  \o "id: " \o theme_data.id \o "\n"
  \o "name: " \o theme_data.name \o "\n"
  \o "type: " \o theme_data.type \o "\n"
  \o "colors:\n"
  \o ColorLines(theme_data.colors)
  \o "---\n"
  \o "\n"
  \o "<!-- Imported from " \o theme_data.id \o " -->\n"

(***************************************************************************)
(* main: discovery, the loop over the candidates, the summary.             *)
(***************************************************************************)
\* IsThemeFile with a slip: test is looked for at the start of the name only
IsThemeFile_prefix(f) ==
  EndsWith(f, ".ts") /\ f # "index.ts" /\ f # "utils.ts" /\ ~StartsWithAt(f, 1, "test")

\* the filter of the directory listing
IsThemeFile(f) ==
  EndsWith(f, ".ts") /\ f # "index.ts" /\ f # "utils.ts" /\ ~Contains(f, "test")

\* output_filename with a slip: the file is named after the display name
output_filename_byname(theme_data) == theme_data.name \o ".md"

\* the name of the output file of a record
output_filename(theme_data) == theme_data.id \o ".md"

\* WriteFile with a slip: the file is opened for appending
WriteFile_append(dir, path, text) ==
  {e \in dir : e[1] # path}
  \cup {<<path, (IF \E e \in dir : e[1] = path THEN (CHOOSE e \in dir : e[1] = path)[2] ELSE "") \o text>>}

\* WriteFile with a slip: the output directory is emptied before the write
WriteFile_alone(dir, path, text) == {<<path, text>>}

\* open(path, 'w') followed by the writes: the file at path is created or replaced.
\* A directory is a set of <<file name, text>> pairs with one pair per name.
WriteFile(dir, path, text) == {e \in dir : e[1] # path} \cup {<<path, text>>}

\* the orders in which os.listdir may return the entries of a directory
Listings(names) ==
  {l \in [1..Cardinality(names) -> names] : \A i, j \in 1..Cardinality(names) : l[i] = l[j] => i = j}

VARIABLES
  src,          \* SOURCE_DIR: file name -> text, unchanged by the script
  out_exists,   \* whether OUTPUT_DIR exists
  out,          \* OUTPUT_DIR: set of <<file name, text>>
  out_start,    \* the content of OUTPUT_DIR when the current run started
  run,          \* number of the current run of the script
  pc,           \* position of main: "start", "loop", "done"
  files,        \* the list of candidate file names
  idx,          \* number of candidates the loop has processed
  count,        \* number of themes generated
  theme_data,   \* the result of the last parse_ts_theme call
  log           \* the lines printed so far in this run

vars == <<src, out_exists, out, out_start, run, pc, files, idx, count, theme_data, log>>

\* lines 115-122: create the output directory, list and filter the source directory
Discover ==
  /\ pc = "start"
  /\ \E listing \in Listings(DOMAIN src) :
       /\ files' = SelectSeq(listing, IsThemeFile)
       /\ log' = <<"Found " \o ToString(Len(files')) \o " theme files.">>
  /\ out_exists' = TRUE
  /\ out_start' = out
  /\ idx' = 0
  /\ count' = 0
  /\ pc' = "loop"
  /\ UNCHANGED <<src, out, run, theme_data>>

\* lines 123-131: one iteration whose file parses: the output file is written
ProcessGenerated ==
  /\ pc = "loop"
  /\ idx < Len(files)
  /\ \E text \in {src[files[idx + 1]]} : \E parsed \in {parse_ts_theme(text)} :
         /\ parsed # None
         /\ theme_data' = parsed
         /\ out' = WriteFile(out, output_filename(parsed[1]), generate_md(parsed[1]))
         /\ log' = Append(log, "Generated " \o output_filename(parsed[1]))
         /\ count' = count + 1
  /\ idx' = idx + 1
  /\ UNCHANGED <<src, out_exists, out_start, run, pc, files>>

\* ProcessSkipped with a slip: the skipped file is counted as generated
ProcessSkipped_counted ==
  /\ pc = "loop"
  /\ idx < Len(files)
  /\ \E text \in {src[files[idx + 1]]} : \E parsed \in {parse_ts_theme(text)} :
         /\ parsed = None
         /\ theme_data' = parsed
         /\ log' = Append(log, "Skipping " \o files[idx + 1] \o " (parse error)")
  /\ idx' = idx + 1
  /\ count' = count + 1
  /\ UNCHANGED <<src, out_exists, out, out_start, run, pc, files>>

\* lines 123-126, 132-133: one iteration whose file has no id: the file is skipped
ProcessSkipped ==
  /\ pc = "loop"
  /\ idx < Len(files)
  /\ \E text \in {src[files[idx + 1]]} : \E parsed \in {parse_ts_theme(text)} :
         /\ parsed = None
         /\ theme_data' = parsed
         /\ log' = Append(log, "Skipping " \o files[idx + 1] \o " (parse error)")
  /\ idx' = idx + 1
  /\ UNCHANGED <<src, out_exists, out, out_start, run, pc, files, count>>

\* line 135: the loop is over, the summary is printed
Summary ==
  /\ pc = "loop"
  /\ idx = Len(files)
  /\ log' = Append(log, "Migration complete. " \o ToString(count) \o " themes generated.")
  /\ pc' = "done"
  /\ UNCHANGED <<src, out_exists, out, out_start, run, files, idx, count, theme_data>>

\* lines 137-138: the script is started again over the same directories
Rerun ==
  /\ pc = "done"
  /\ run < MaxRuns
  /\ run' = run + 1
  /\ pc' = "start"
  /\ files' = <<>>
  /\ idx' = 0
  /\ count' = 0
  /\ theme_data' = None
  /\ log' = <<>>
  /\ UNCHANGED <<src, out_exists, out, out_start>>

Next == Discover \/ ProcessGenerated \/ ProcessSkipped \/ Summary \/ Rerun

(***************************************************************************)
(* The explored inputs.                                                    *)
(***************************************************************************)
\* entries of the source directory that are theme files, and entries that are not
ThemeFileNames == {"nord.ts", "Test.ts", "a.ts"}
OtherFileNames == {"index.ts", "utils.ts", "latest.ts", "notes.md"}

\* a theme file with the given id and name lines, a colors block and an editor block
ThemeText(header, colorsPart, editorPart) == "{\n" \o header \o colorsPart \o editorPart \o "};\n"

\* the example of the specification: id, name, type and two colors, no editor block
SolarText ==
  ThemeText(" id: 'solarized',\n name: 'Solarized',\n type: 'light',\n",
            " colors: {\n  text: 'foo',\n  primary: 'bar',\n },\n", "")

\* texts of the files of a directory with several entries: a file without id,
\* two files with the same id, a file with another id
NoIdText == ThemeText(" name: 'Lost',\n", "", "")
SolarLightText == ThemeText(" id: 'solarized',\n", " colors: {\n  primary: 'bar',\n },\n", "")
SolarDarkText == ThemeText(" id: 'solarized',\n name: 'Dark',\n", "", " editor: { caret: 'c2' },\n")
NordText == ThemeText(" id: 'nord',\n", "", "")

FileTexts == {NoIdText, SolarLightText, SolarDarkText, NordText}

\* the text of the entries that are not theme files (the script never opens them)
OtherText == "export * from './nord';\n"

\* the lines a colors block and an editor block are built from
ColorsLineChoices == {"  text: 'foo',\n", "  primary: 'bar',\n", "  background: 'baz',\n"}

EditorLineChoices == {"  text: 'e1',\n", "  background: 'e2',\n"}

\* the block bodies of at most n lines
RECURSIVE Bodies(_, _)
Bodies(choices, n) ==
  IF n = 0 THEN {""}
  ELSE Bodies(choices, n - 1) \cup {b \o l : b \in Bodies(choices, n - 1), l \in choices}

Headers == {" id: 'solarized',\n", " id: 'solarized',\n name: 'Solarized',\n type: 'light',\n"}

ColorsParts == {""} \cup {" colors: {\n" \o b \o " },\n" : b \in Bodies(ColorsLineChoices, MaxLines)}

EditorParts ==
  {""} \cup {" editor: createDefaultEditorTheme({\n" \o b \o " }),\n" :
               b \in Bodies(EditorLineChoices, MaxLines)}

\* texts off the regular layout: an editor block without the factory call, an
\* editor block nested in the colors block, a file without id, blocks on one
\* line, an empty block, lines that are no key/value pair, a key outside the tables
IrregularTexts ==
  { ThemeText(" id: 'solarized',\n", " colors: {\n  text: 'foo',\n },\n",
              " editor: {\n  text: 'e1',\n },\n"),
    ThemeText(" id: 'solarized',\n",
              " colors: {\n  primary: 'bar',\n  editor: {\n   text: 'e1',\n  },\n },\n", ""),
    ThemeText("", " colors: {\n  primary: 'bar',\n },\n", ""),
    ThemeText(" id: 'solarized',\n", " colors: {\n  // primary: 'zzz',\n\n  text: 'foo',\n },\n", ""),
    ThemeText(" id: 'solarized',\n", " colors: {},\n", " editor: { caret: 'e2', text: 'e1' },\n"),
    ThemeText(" id: 'solarized',\n", " colors: {\n  primary: 'bar',\n },\n",
              " editor: createDefaultEditorTheme({\n  primary: 'e3',\n  text: 'e1',\n }),\n"),
    ThemeText(" id: 'solarized',\n",
              " colors: { primary: bar,\n primary : 'bar',\n 'primary': 'bar',\n shadow: 'qux' },\n", "") }

ThemeTexts ==
  {ThemeText(h, c, e) : h \in Headers, c \in ColorsParts, e \in EditorParts} \cup IrregularTexts

\* source directories with up to MaxFiles entries
SourceDirs ==
  UNION {[names -> FileTexts \cup {OtherText}] :
           names \in {n \in SUBSET (ThemeFileNames \cup OtherFileNames) : Cardinality(n) <= MaxFiles}}

\* source directories with the single entry theme.ts
SingleThemeDirs == [{"theme.ts"} -> ThemeTexts]

\* an older solarized.md in the output directory
StaleOut == {<<"solarized.md", "---\nid: solarized\n---\n">>}

\* the state before the first run, apart from the two directories
InitRun ==
  /\ out_start = out
  /\ run = 1
  /\ pc = "start"
  /\ files = <<>>
  /\ idx = 0
  /\ count = 0
  /\ theme_data = None
  /\ log = <<>>

\* the theme files hold theme texts, the other entries hold the other text;
\* the output directory does not exist yet
Init ==
  /\ src \in SourceDirs
  /\ \A n \in DOMAIN src : src[n] = OtherText <=> n \in OtherFileNames
  /\ out_exists = FALSE
  /\ out = {}
  /\ InitRun

Spec == Init /\ [][Next]_vars

\* the runs over the directories of theme files and index.ts, in which the
\* script runs to completion: a step of main that can be taken is taken
InitLive == Init /\ DOMAIN src \subseteq ThemeFileNames \cup {"index.ts"}

LiveSpec ==
  InitLive /\ [][Next]_vars /\ WF_vars(Discover \/ ProcessGenerated \/ ProcessSkipped \/ Summary)

\* the runs over a single theme file, for the properties of one conversion
\* the output directory is missing, or holds the older solarized.md
InitTheme ==
  /\ src \in SingleThemeDirs
  /\ \E e \in BOOLEAN :
       /\ out_exists = e
       /\ out = IF e THEN StaleOut ELSE {}
  /\ InitRun

ThemeSpec == InitTheme /\ [][Next]_vars

(***************************************************************************)
(* Properties of one conversion (ThemeSpec).                               *)
(***************************************************************************)
\* parse_ts_theme has just returned a record for the file files[idx]
Parsed == pc = "loop" /\ idx >= 1 /\ theme_data # None

\* the position of a key in a dict
IndexOf(d, k) == CHOOSE i \in 1..Len(d) : d[i][1] = k

\* the <<token, value>> pairs the key/value lines of a block stand for under a
\* table, in line order
TableWrites(block, table) ==
  With(block,
       LAMBDA b :
         IF b = None THEN <<>>
         ELSE With(BlockLines(b[1]),
                   LAMBDA lines :
                     With(SelectSeq([i \in 1..Len(lines) |-> KvMatch(lines[i])],
                                    LAMBDA kv : kv # None /\ DictHas(table, kv[1][1])),
                          LAMBDA hits :
                            [i \in 1..Len(hits) |-> <<DictGet(table, hits[i][1][1]), hits[i][1][2]>>])))

\* the text the specification expects for its example
SolarExpected ==
  "---\nid: solarized\nname: Solarized\ntype: light\ncolors:\n"
  \o "  --text-main: \"foo\"\n  --accent-primary: \"bar\"\n  --list-hover: \"bar\"\n"
  \o "---\n\n<!-- Imported from solarized -->\n"

\* C1: the example input (id solarized, name Solarized, type light, colors
\* text: 'foo' and primary: 'bar', no editor block) yields solarized.md with
\* type light and the colors --text-main "foo", --accent-primary "bar" and
\* --list-hover "bar".
C1_SolarizedExample ==
  (pc = "done" /\ DOMAIN src = {"theme.ts"} /\ src["theme.ts"] = SolarText)
    => <<"solarized.md", SolarExpected>> \in out

\* C2: when a line of the colors block and a line of the editor block map to
\* the same token, the record holds the value of the editor block (of its last
\* such line) and the token stands where the colors block first inserted it.
C2_OverwriteLaw ==
  Parsed =>
    \A text \in {src[files[idx]]} :
      \A P \in {TableWrites(ColorsBlock(text), COLOR_MAP)} :
        \A E \in {TableWrites(EditorBlock(text), EDITOR_MAP)} :
          \A t \in {P[i][1] : i \in 1..Len(P)} \cap {E[i][1] : i \in 1..Len(E)} :
            LET colors == theme_data[1].colors
                lastE == CHOOSE i \in 1..Len(E) : E[i][1] = t /\ \A j \in (i + 1)..Len(E) : E[j][1] # t
                firstP == CHOOSE i \in 1..Len(P) : P[i][1] = t /\ \A j \in 1..(i - 1) : P[j][1] # t
            IN  /\ DictHas(colors, t)
                /\ DictGet(colors, t) = E[lastE][2]
                /\ IndexOf(colors, t) = Cardinality({P[j][1] : j \in 1..firstP})

\* C2 witness: text: 'foo' came first in the colors block, the editor block
\* overwrote it with e1, and the token is still first, before --accent-primary
C2_Witness ==
  /\ Parsed
  /\ Contains(src[files[idx]], "colors: {\n  text: 'foo',\n  primary: 'bar',\n")
  /\ theme_data[1].colors =
       << <<"--editor-fg", "e1">>, <<"--accent-primary", "bar">>, <<"--list-hover", "bar">> >>

\* C3: if --accent-primary is in the colors of a returned record and neither
\* pass set --list-hover, then --list-hover is present with the same value; if
\* --accent-primary is absent, --list-hover is absent.
C3_FallbackLaw ==
  Parsed =>
    \A text \in {src[files[idx]]} :
      \A primary \in {PrimaryPass(text)} :
        \A passes \in {EditorPass(primary, text)} :
          LET colors == theme_data[1].colors
          IN  /\ (DictHas(colors, "--accent-primary") /\ ~DictHas(passes, "--list-hover"))
                   => /\ DictHas(colors, "--list-hover")
                      /\ DictGet(colors, "--list-hover") = DictGet(colors, "--accent-primary")
              /\ ~DictHas(colors, "--accent-primary") => ~DictHas(colors, "--list-hover")

\* C3 witness: a record whose --list-hover was derived from --accent-primary
C3_Witness ==
  /\ Parsed
  /\ DictHas(theme_data[1].colors, "--accent-primary")
  /\ DictGet(theme_data[1].colors, "--accent-primary") = "bar"
  /\ DictGet(theme_data[1].colors, "--list-hover") = "bar"

\* C9: the record of a file without an editor block holds no --editor-* token,
\* whatever the keys of its colors block.
C9_NoEditorTokenWithoutEditorBlock ==
  (Parsed /\ EditorBlock(src[files[idx]]) = None)
    => \A i \in 1..Len(theme_data[1].colors) :
         ~StartsWithAt(theme_data[1].colors[i][1], 1, "--editor-")

(***************************************************************************)
(* Properties of a run over a directory (Spec, LiveSpec).                  *)
(***************************************************************************)
\* the records of the candidates, by file name
Records == [f \in {files[i] : i \in 1..Len(files)} |-> parse_ts_theme(src[f])]

\* no two candidates are written to the same output file
DistinctOutputs(recs) ==
  \A f, g \in DOMAIN recs :
    (f # g /\ recs[f] # None /\ recs[g] # None) => recs[f][1].id # recs[g][1].id

\* the text of the output file with the given name
OutText(name) == (CHOOSE e \in out : e[1] = name)[2]

\* C4: after the run, every candidate with a matchable id has exactly one
\* output file named <id>.md, reported as generated for it, whose id: line and
\* trailing comment carry that id.
C4_OneOutputPerId ==
  pc = "done" =>
    \A i \in 1..Len(files) :
      \A id \in {LabelSearch("id:", src[files[i]])} :
          id # None =>
            /\ Cardinality({e \in out : e[1] = id[1] \o ".md"}) = 1
            /\ log[i + 1] = "Generated " \o id[1] \o ".md"
            /\ LET lines == Split(OutText(id[1] \o ".md"), "\n")
               IN  /\ Len(lines) >= 8
                   /\ lines[2] = "id: " \o id[1]
                   /\ lines[Len(lines) - 1] = "<!-- Imported from " \o id[1] \o " -->"

\* C4 witness: a finished first run over three candidates that wrote
\* solarized.md and nord.md into the new output directory
C4_Witness ==
  /\ pc = "done"
  /\ run = 1
  /\ out_start = {}
  /\ Len(files) = 3
  /\ count = 2
  /\ {e[1] : e \in out} = {"solarized.md", "nord.md"}

\* C5: a step of the loop on a candidate without a matchable id returns no
\* record, leaves the output directory and the count as they are, reports the
\* file as skipped and moves on to the next candidate.
C5_SkipWithoutId ==
  [][(pc = "loop" /\ idx < Len(files) /\ LabelSearch("id:", src[files[idx + 1]]) = None)
       => /\ theme_data' = None
          /\ out' = out
          /\ count' = count
          /\ log' = Append(log, "Skipping " \o files[idx + 1] \o " (parse error)")
          /\ idx' = idx + 1
          /\ pc' = "loop"]_vars

\* C5 witness: a file was skipped and the candidate after it was generated
C5_Witness ==
  /\ pc = "done"
  /\ \E i \in 1..(Len(files) - 1) :
       /\ log[i + 1] = "Skipping " \o files[i] \o " (parse error)"
       /\ StartsWithAt(log[i + 2], 1, "Generated ")
  /\ count < Len(files)

\* C6: index.ts, utils.ts, a name holding the substring test and a name
\* without the .ts extension are never candidates; every other entry is.
C6_DiscoveryFilter ==
  pc # "start" =>
    \A f \in DOMAIN src :
      LET excluded == \/ f = "index.ts"
                      \/ f = "utils.ts"
                      \/ \E i \in 1..(Len(f) - 3) : SubSeq(f, i, i + 3) = "test"
                      \/ Len(f) < 3
                      \/ SubSeq(f, Len(f) - 2, Len(f)) # ".ts"
      IN  (f \in {files[i] : i \in 1..Len(files)}) <=> ~excluded

\* C6 witness: a listing with latest.ts (holds test) and Test.ts, of which only
\* Test.ts is a candidate
C6_Witness ==
  /\ pc # "start"
  /\ {"latest.ts", "Test.ts", "index.ts"} \subseteq DOMAIN src
  /\ files = <<"Test.ts">>

\* the result of the loop of main over the candidates fs, as a function of the
\* order: the output directory and the count
RECURSIVE LoopResult(_, _, _, _)
LoopResult(fs, recs, dir, n) ==
  IF fs = <<>> THEN [out |-> dir, count |-> n]
  ELSE IF recs[Head(fs)] = None THEN LoopResult(Tail(fs), recs, dir, n)
  ELSE With(WriteFile(dir, output_filename(recs[Head(fs)][1]), generate_md(recs[Head(fs)][1])),
            LAMBDA written : LoopResult(Tail(fs), recs, written, n + 1))

\* every order of the candidates gives the output files and the count of this run
SameInAnyOrder(recs) ==
  \A order \in Listings(DOMAIN recs) :
    LoopResult(order, recs, out_start, 0) = [out |-> out, count |-> count]

\* C7 as stated: processing the candidates in any other order leaves the same
\* output files with the same contents and the same count.
C7_OrderIndependent == pc = "done" => \A recs \in {Records} : SameInAnyOrder(recs)

\* C7 as amended: the same, for candidates no two of which are written to the
\* same output file.
C7_OrderIndependentDistinct ==
  pc = "done" => \A recs \in {Records} : DistinctOutputs(recs) => SameInAnyOrder(recs)

\* C7 witness: a finished run over three candidates, two of them generated
\* under different ids
C7_Witness ==
  /\ pc = "done"
  /\ DistinctOutputs(Records)
  /\ Len(files) = 3
  /\ count = 2
  /\ Cardinality(out) = 2

\* C8 as stated: after a second run over the unchanged source directory the
\* output files are those the first run left.
C8_Idempotent == (pc = "done" /\ run >= 2) => out = out_start

\* C8 as amended: the same, for candidates no two of which are written to the
\* same output file.
C8_IdempotentDistinct ==
  (pc = "done" /\ run >= 2) => \A recs \in {Records} : DistinctOutputs(recs) => out = out_start

\* C8 witness: a finished second run that rewrote two files
C8_Witness ==
  /\ pc = "done"
  /\ run = 2
  /\ DistinctOutputs(Records)
  /\ count = 2
  /\ out = out_start

\* the log of a run: the discovery line, then one line per processed candidate
\* in listing order (generated or skipped), then, once the loop is over, the
\* summary with the number of generated lines
LogShape ==
  pc # "start" =>
    /\ Len(log) = 1 + idx + (IF pc = "done" THEN 1 ELSE 0)
    /\ log[1] = "Found " \o ToString(Len(files)) \o " theme files."
    /\ \A i \in 1..idx :
         \A id \in {LabelSearch("id:", src[files[i]])} :
           log[i + 1] = IF id # None THEN "Generated " \o id[1] \o ".md"
                        ELSE "Skipping " \o files[i] \o " (parse error)"
    /\ pc = "done" =>
         /\ idx = Len(files)
         /\ log[Len(log)] =
              "Migration complete. "
              \o ToString(Cardinality({i \in 2..(Len(log) - 1) : StartsWithAt(log[i], 1, "Generated ")}))
              \o " themes generated."

\* C10: once the directory is listed the run terminates; every candidate is
\* reported once, as generated or as skipped, in listing order, and the
\* summary comes once, last, with the number of candidates reported generated.
C10_RunTerminates == [](LogShape) /\ ((pc = "loop") ~> (pc = "done"))

\* C10 witness: a finished run that generated one candidate and skipped another
C10_Witness ==
  /\ pc = "done"
  /\ Len(files) >= 2
  /\ count >= 1
  /\ count < Len(files)
  /\ log[Len(log)] = "Migration complete. " \o ToString(count) \o " themes generated."

====
